---- MODULE Spec2Model ----
(***************************************************************************)
(* A model of the V10 scalping bot's core: the Deriv WebSocket client      *)
(* (src/websocket_client.py, src/utils.py RateLimiter), the risk manager   *)
(* (src/risk_manager.py) and the trade executor (src/trade_executor.py),   *)
(* wired as in src/main.py.                                                *)
(*                                                                         *)
(* Every coroutine is cut at its await points: one action is the code      *)
(* between two awaits, which asyncio runs without interruption.            *)
(* Money is counted in cents and time in whole seconds.                    *)
(***************************************************************************)
EXTENDS Integers, Sequences, FiniteSets, TLC

(***************************************************************************)
(* Bounds of the model.                                                    *)
(***************************************************************************)
MaxReq == 3          \* cap on request_id_counter
MaxInbound == 2      \* frames the transport buffers ahead of the pump
MaxTransports == 2   \* transports opened over the session
MaxWindows == 1      \* limiter windows the clock may advance by
MaxTrades == 6       \* cap on stats.total_trades when the risk manager is driven alone
MaxRiskClock == 2    \* steps the clock takes when the risk manager is driven alone
MaxOrderClock == 2   \* steps the clock takes while orders are placed
OrderClockStep == 2  \* seconds in one such step
MaxOrders == 1       \* cap on trade_counter
MaxLossRun == 6      \* longest closing run of losses in a drawn history

(***************************************************************************)
(* Program constants.                                                      *)
(***************************************************************************)
max_calls == 30                \* RateLimiter(max_calls=30, ...)
time_window == 60              \* RateLimiter(..., time_window=60)
max_reconnect_attempts == 10
max_stake == 25                \* TradingConfig.max_stake (0.25)
max_daily_loss == 150          \* RiskConfig.max_daily_loss (1.50)
max_consecutive_losses == 5
max_trades_per_hour == 15
max_trades_per_day == 100
cooldown_minutes == 60
min_balance_to_trade == 200    \* RiskConfig.min_balance_to_trade (2.00)
max_drawdown_percent == 40
Day == 86400                   \* seconds from one UTC midnight to the next
Hour == 3600

VARIABLES
    \* --- DerivWebSocketClient -------------------------------------------
    connected,            \* state.connected
    authenticated,        \* state.authenticated
    websocket,            \* self.websocket: 0 is None, n > 0 the n-th transport
    reconnect_attempts,   \* state.reconnect_attempts
    message_handlers,     \* keys of self.message_handlers
    request_id_counter,   \* self.request_id_counter
    pending_requests,     \* keys of self.pending_requests (each maps to a pending future)
    calls,                \* rate_limiter.calls
    subscriptions,        \* self.subscriptions
    \* --- coroutines of the client ---------------------------------------
    req,                  \* per caller: the send_request invocation it is in
    listener,             \* _message_listener task
    ctl,                  \* the task that drives connect / reconnect / disconnect
    \* --- the transport and the venue behind it --------------------------
    sockOpen,             \* the transport self.websocket names is open
    sockGen,              \* transports opened so far
    inbound,              \* frames received and not yet read by the pump
    venueReqs,            \* requests the venue holds unanswered on this transport
    venueSubs,            \* topics the venue streams on this transport
    \* --- RiskManager ------------------------------------------------------
    stats,                \* self.stats (TradingStats)
    current_balance,      \* self.current_balance
    peak_balance,         \* self.peak_balance
    daily_reset_time,     \* self.daily_reset_time
    hourly_trade_count,   \* self.hourly_trade_count
    hourly_reset_time,    \* self.hourly_reset_time
    trading_paused,       \* self.trading_paused
    pause_reason,         \* self.pause_reason
    pause_until,          \* self.pause_until
    assessment,           \* <<the TradeRisk assess_trade_risk returned>> while that
                          \* is the latest call on the risk manager, else <<>>
    trading_config,       \* self.trading_config: [max_stake |-> cents]
    risk_config,          \* self.risk_config: [max_trades_per_hour |-> n]
    risk_data,            \* data/risk_data.json: <<what _save_risk_data wrote>>,
                          \* or <<>> while there is no such file
    \* --- TradeExecutor ----------------------------------------------------
    trades,               \* the Trade objects, by trade number
    active_trades,        \* keys of self.active_trades
    completed_trades,     \* self.completed_trades
    contract_subscriptions, \* self.contract_subscriptions: contract id -> trade
    trade_counter,        \* self.trade_counter
    recorded,             \* by trade: the record_trade_result calls made for it
    exec,                 \* the execute_trade invocation of the submitting task and its report
    current_time,         \* <<current_time>> of the latest check_expired_trades
    venueContracts,       \* contracts the venue has issued
    \* --- V10ScalpingBot (main.py) ----------------------------------------
    shutdown_requested,   \* self.shutdown_requested
    stopper,              \* the task that runs shutdown(): where it is in disconnect()
    \* --- the clock --------------------------------------------------------
    now

clientVars == <<connected, authenticated, websocket, reconnect_attempts,
                message_handlers, request_id_counter, pending_requests, calls,
                subscriptions>>
taskVars   == <<req, listener, ctl>>
netVars    == <<sockOpen, sockGen, inbound, venueReqs, venueSubs>>
riskVars   == <<stats, current_balance, peak_balance, daily_reset_time,
                hourly_trade_count, hourly_reset_time, trading_paused,
                pause_reason, pause_until, assessment, trading_config,
                risk_config, risk_data>>
orderVars  == <<trades, active_trades, completed_trades, contract_subscriptions,
                trade_counter, recorded, exec, current_time>>
botVars    == <<shutdown_requested, stopper>>
appVars    == <<riskVars, orderVars, venueContracts, botVars>>

vars == <<clientVars, taskVars, netVars, appVars, now>>

(***************************************************************************)
(* The tasks that call send_request.  "heartbeat" is _heartbeat (ping),    *)
(* "app" an application task (get_balance for the status report,           *)
(* buy_contract); CtlSlot is the task inside connect / reconnect /         *)
(* subscribe_ticks; HandlerSlot is the tick handler, which the pump awaits.*)
(***************************************************************************)
Callers     == {"heartbeat", "app"}
CtlSlot     == "ctl"
HandlerSlot == "tick_handler"
Slots       == Callers \cup {CtlSlot, HandlerSlot}

\* The request each application task sends.
KindOf(c) == IF c = "heartbeat" THEN "ping" ELSE "balance"

Idle == [pc |-> "idle", id |-> 0, kind |-> "none", ws |-> 0, ret |-> "none",
         got |-> 0, err |-> FALSE, cid |-> 0]

\* A send_request invocation that has returned (or raised) `ret`.
Returned(r, ret, got, err) ==
    [r EXCEPT !.pc = "done", !.ret = ret, !.got = got, !.err = err]

\* msg_type of the venue's answer to a request kind.
MsgTypeOf(kind) ==
    CASE kind = "authorize" -> "authorize"
      [] kind = "balance"   -> "balance"
      [] kind = "ticks"     -> "tick"
      [] kind = "buy"       -> "buy"
      [] OTHER              -> "ping"

(***************************************************************************)
(* RateLimiter (src/utils.py).                                             *)
(***************************************************************************)
\* can_proceed: the list with the calls outside the window removed
Pruned(cs, t) == SelectSeq(cs, LAMBDA call_time : t - call_time < time_window)

can_proceed(cs, t) == Len(Pruned(cs, t)) < max_calls

\* record_call
record_call(cs, t) == Append(cs, t)

(***************************************************************************)
(* send_request, first segment: up to its first await.                     *)
(*   not connected        -> returns None                                  *)
(*   limiter exhausted    -> awaits sleep(1), then returns None            *)
(*   otherwise            -> takes the next req_id, registers the future   *)
(*                           and awaits websocket.send                     *)
(***************************************************************************)
NextReqId(counter) == counter + 1

SendRequestBegin(c, kind, conn, ws) ==
    IF ~conn \/ ws = 0
    THEN /\ req' = [req EXCEPT ![c] = Returned([Idle EXCEPT !.kind = kind],
                                               "not_connected", 0, FALSE)]
         /\ UNCHANGED <<calls, request_id_counter, pending_requests>>
    ELSE /\ calls' = Pruned(calls, now)
         /\ IF ~can_proceed(calls, now)
            THEN /\ req' = [req EXCEPT ![c] = [Idle EXCEPT !.pc = "ratesleep",
                                                            !.kind = kind]]
                 /\ UNCHANGED <<request_id_counter, pending_requests>>
            ELSE /\ request_id_counter' = NextReqId(request_id_counter)
                 /\ pending_requests' = pending_requests \cup {request_id_counter'}
                 /\ req' = [req EXCEPT ![c] = [Idle EXCEPT !.pc = "sending",
                                                            !.id = request_id_counter',
                                                            !.kind = kind,
                                                            !.ws = ws]]

\* The model stops issuing requests at MaxReq.
MayBegin(c) ==
    /\ req[c].pc \in {"idle", "done"}
    /\ (connected /\ websocket # 0) => request_id_counter < MaxReq

\* An application task calls get_balance, buy_contract or the heartbeat ping.
AppRequest(c, kind) ==
    /\ MayBegin(c)
    /\ c \in Callers
    /\ SendRequestBegin(c, kind, connected, websocket)
    /\ UNCHANGED <<connected, authenticated, websocket, reconnect_attempts,
                   message_handlers, subscriptions, listener, ctl, netVars, appVars, now>>

\* The sleep(1) of a rate-limited call ends: send_request returns None.
RateLimitedReturn(c) ==
    /\ req[c].pc = "ratesleep"
    /\ req' = [req EXCEPT ![c] = Returned(req[c], "rate_limited", 0, FALSE)]
    /\ UNCHANGED <<clientVars, listener, ctl, netVars, appVars, now>>

(***************************************************************************)
(* send_request, second segment: websocket.send returns or raises.         *)
(***************************************************************************)
SendCompletes(c) ==
    /\ req[c].pc = "sending"
    /\ IF sockOpen /\ req[c].ws = websocket
       THEN /\ venueReqs' = venueReqs \cup {[id |-> req[c].id, kind |-> req[c].kind]}
            /\ calls' = record_call(calls, now)
            /\ req' = [req EXCEPT ![c].pc = "waiting"]
            /\ UNCHANGED pending_requests
       ELSE \* except Exception: pending_requests.pop(req_id, None); return None
            /\ pending_requests' = pending_requests \ {req[c].id}
            /\ req' = [req EXCEPT ![c] = Returned(req[c], "send_error", 0, FALSE)]
            /\ UNCHANGED <<calls, venueReqs>>
    /\ UNCHANGED <<connected, authenticated, websocket, reconnect_attempts,
                   message_handlers, request_id_counter, subscriptions,
                   listener, ctl, sockOpen, sockGen, inbound, venueSubs, appVars, now>>

\* TimeoutEffect with the request awaited without a timeout: the entry is
\* dropped but the caller stays suspended.
TimeoutNeverResumes(c) ==
    /\ pending_requests' = pending_requests \ {req[c].id}
    /\ req' = req

\* wait_for's timer fires while the future is still pending.
TimeoutEffect(c) ==
    /\ pending_requests' = pending_requests \ {req[c].id}
    /\ req' = [req EXCEPT ![c] = Returned(req[c], "timeout", 0, FALSE)]

RequestTimeout(c) ==
    /\ req[c].pc = "waiting"
    /\ TimeoutEffect(c)
    /\ UNCHANGED <<connected, authenticated, websocket, reconnect_attempts,
                   message_handlers, request_id_counter, calls, subscriptions,
                   listener, ctl, netVars, appVars, now>>

(***************************************************************************)
(* The venue and the transport.                                            *)
(***************************************************************************)
TickTopic == "ticks_1HZ10V"

NoInfo == [contract_id |-> 0, current_spot |-> <<>>, is_sold |-> FALSE,
           sell_spot |-> <<>>, sell_price |-> <<>>, buy_price |-> <<>>]

Frame(rid, mt, e, cid, info) ==
    [req_id |-> rid, msg_type |-> mt, error |-> e, contract_id |-> cid,
     proposal_open_contract |-> info]

\* The venue answers one request it holds, in any order, with or without an error.
VenueResponds(r, e) ==
    /\ sockOpen
    /\ r \in venueReqs
    /\ Len(inbound) < MaxInbound
    /\ inbound' = Append(inbound, Frame(r.id, MsgTypeOf(r.kind), e, 0, NoInfo))
    /\ venueReqs' = venueReqs \ {r}
    /\ venueSubs' = IF r.kind = "ticks" /\ ~e THEN venueSubs \cup {TickTopic}
                    ELSE venueSubs
    /\ UNCHANGED <<clientVars, taskVars, sockOpen, sockGen, appVars, now>>

\* The venue streams a tick on a subscribed transport.
VenuePushesTick ==
    /\ sockOpen
    /\ TickTopic \in venueSubs
    /\ Len(inbound) < MaxInbound
    /\ inbound' = Append(inbound, Frame(0, "tick", FALSE, 0, NoInfo))
    /\ UNCHANGED <<clientVars, taskVars, sockOpen, sockGen, venueReqs, venueSubs, appVars, now>>

\* The connection drops: the peer or the network closes the transport.
ConnectionDrops ==
    /\ sockOpen
    /\ sockOpen' = FALSE
    /\ venueReqs' = {}
    /\ venueSubs' = {}
    /\ UNCHANGED <<clientVars, taskVars, sockGen, inbound, appVars, now>>

(***************************************************************************)
(* _message_listener and _handle_message: the message pump.                *)
(***************************************************************************)
\* future.set_result(data) on the future registered under req_id
Resolve(rq, rid, frame) ==
    [c \in Slots |->
        IF rq[c].pc = "waiting" /\ rq[c].id = rid
        THEN [Returned(rq[c], "response", frame.req_id, frame.error)
                 EXCEPT !.cid = frame.contract_id]
        ELSE rq[c]]

\* LookupKey matching by arrival order: the oldest pending request.
LookupOldestPending(frame) ==
    IF pending_requests = {} THEN frame.req_id
    ELSE CHOOSE i \in pending_requests : \A j \in pending_requests : i <= j

\* The key _handle_message looks up in pending_requests.
LookupKey(frame) == frame.req_id

\* Reads one frame.  A frame whose req_id is pending completes that request;
\* any other frame goes to the handler registered for its msg_type, which the
\* pump awaits; a frame with no handler is logged and dropped.
\* The only handler main.py registers is _handle_tick_data, under 'tick':
\* `signal` is whether the strategy layer produced a signal for this tick, in
\* which case the handler calls get_balance.
HandleMessage(signal) ==
    /\ listener = "reading"
    /\ inbound # <<>>
    /\ LET data == Head(inbound) IN
       /\ inbound' = Tail(inbound)
       /\ IF data.req_id # 0 /\ LookupKey(data) \in pending_requests
          THEN /\ pending_requests' = pending_requests \ {LookupKey(data)}
               /\ req' = Resolve(req, LookupKey(data), data)
               /\ ~signal
               /\ UNCHANGED <<listener, calls, request_id_counter>>
          ELSE IF data.msg_type \in message_handlers /\ signal
          THEN /\ MayBegin(HandlerSlot)
               /\ SendRequestBegin(HandlerSlot, "balance", connected, websocket)
               /\ listener' = "in_handler"
          ELSE /\ ~signal
               /\ UNCHANGED <<listener, calls, request_id_counter,
                              pending_requests, req>>
    /\ UNCHANGED <<connected, authenticated, websocket, reconnect_attempts,
                   message_handlers, subscriptions, ctl, sockOpen, sockGen,
                   venueReqs, venueSubs, appVars, now>>

\* get_balance returned None to the tick handler: it logs and returns, and
\* the pump goes back to reading.
TickHandlerReturns ==
    /\ listener = "in_handler"
    /\ req[HandlerSlot].pc = "done"
    /\ req[HandlerSlot].ret # "response" \/ req[HandlerSlot].err
    /\ listener' = "reading"
    /\ req' = [req EXCEPT ![HandlerSlot] = Idle]
    /\ UNCHANGED <<clientVars, ctl, netVars, appVars, now>>

\* `async for message in self.websocket` raises ConnectionClosed.
ListenerSeesClose ==
    /\ listener = "reading"
    /\ inbound = <<>>
    /\ ~sockOpen
    /\ connected' = FALSE
    /\ listener' = "closed"
    /\ UNCHANGED <<authenticated, websocket, reconnect_attempts, message_handlers,
                   request_id_counter, pending_requests, calls, subscriptions,
                   req, ctl, netVars, appVars, now>>

(***************************************************************************)
(* connect, _authenticate, disconnect, reconnect, _restore_subscriptions   *)
(* and subscribe_ticks, run by the controlling task `ctl`:                 *)
(*   pc           where the task is suspended                              *)
(*   in_reconnect the connect / disconnect in progress was called by       *)
(*                reconnect                                                *)
(*   then         what follows the disconnect in progress                  *)
(*   todo         the subscriptions _restore_subscriptions has yet to send *)
(***************************************************************************)
CtlIdle == [pc |-> "idle", in_reconnect |-> FALSE, then |-> "return", todo |-> {}]

is_connected == connected /\ authenticated

\* connect(): websockets.connect returns (ok) or raises.  On success the
\* listener and heartbeat tasks are created and _authenticate sends the
\* authorize request.
ConnectOpens(ok) ==
    /\ ctl.pc \in {"start", "open"}
    /\ IF ok
       THEN /\ sockGen < MaxTransports
            /\ request_id_counter < MaxReq
            /\ websocket' = sockGen + 1
            /\ sockGen' = sockGen + 1
            /\ sockOpen' = TRUE
            /\ connected' = TRUE
            /\ reconnect_attempts' = 0
            /\ listener' = "reading"
            /\ inbound' = <<>>
            /\ venueReqs' = {}
            /\ venueSubs' = {}
            /\ SendRequestBegin(CtlSlot, "authorize", TRUE, sockGen + 1)
            /\ ctl' = [ctl EXCEPT !.pc = "auth"]
            /\ UNCHANGED <<authenticated, message_handlers, subscriptions, appVars, now>>
       ELSE /\ ctl' = CtlIdle
            /\ UNCHANGED <<clientVars, req, listener, netVars, appVars, now>>

\* disconnect() up to `await self.websocket.close()`.
DisconnectBegins(then) ==
    /\ connected' = FALSE
    /\ authenticated' = FALSE
    /\ ctl' = [ctl EXCEPT !.pc = "closing", !.then = then]

\* The futures disconnect() cancels: every pending one.
CancelPending(rq) ==
    [c \in Slots |-> IF rq[c].pc = "waiting"
                     THEN Returned(rq[c], "cancelled", 0, FALSE)
                     ELSE rq[c]]

\* disconnect() after the close: self.websocket = None, every pending future
\* is cancelled and the table is cleared.  The listener of the closed
\* transport ends with it.
DisconnectEnds ==
    /\ ctl.pc = "closing"
    /\ websocket' = 0
    /\ sockOpen' = FALSE
    /\ inbound' = <<>>
    /\ venueReqs' = {}
    /\ venueSubs' = {}
    /\ listener' = "none"
    /\ req' = CancelPending(req)
    /\ pending_requests' = {}
    /\ ctl' = IF ctl.then = "open" THEN [ctl EXCEPT !.pc = "open"] ELSE CtlIdle
    /\ UNCHANGED <<connected, authenticated, reconnect_attempts, message_handlers,
                   request_id_counter, calls, subscriptions, sockGen, appVars, now>>

\* The application calls disconnect().
Disconnect ==
    /\ ctl.pc = "idle"
    /\ DisconnectBegins("return")
    /\ UNCHANGED <<websocket, reconnect_attempts, message_handlers,
                   request_id_counter, pending_requests, calls, subscriptions,
                   req, listener, netVars, appVars, now>>

\* heartbeat_task.cancel(), called by a disconnect() in progress, reaches the
\* heartbeat task inside send_request.  CancelledError is not an Exception:
\* neither handler of send_request runs, and the entry of the request stays
\* in pending_requests.
HeartbeatCancelled ==
    /\ ctl.pc = "closing" \/ stopper.pc = "closing"
    /\ req["heartbeat"].pc \in {"ratesleep", "sending", "waiting"}
    /\ req' = [req EXCEPT !["heartbeat"] =
                   Returned(req["heartbeat"], "caller_cancelled", 0, FALSE)]
    /\ UNCHANGED <<clientVars, listener, ctl, netVars, appVars, now>>

\* _restore_subscriptions: the request for the next subscription of the copy,
\* or the end of the loop.
RestoreStep(todo) ==
    IF todo = {}
    THEN /\ ctl' = CtlIdle
         /\ UNCHANGED <<req, calls, request_id_counter, pending_requests>>
    ELSE \E s \in todo :
         /\ SendRequestBegin(CtlSlot, "ticks", connected, websocket)
         /\ ctl' = [ctl EXCEPT !.pc = "restore", !.todo = todo \ {s}]

\* What reconnect() replays once connect() has returned True.
ToRestore(subs) == subs

\* _authenticate gets the outcome of the authorize request.  On success
\* connect() returns True, and reconnect() goes on to restore the
\* subscriptions; on failure connect() calls disconnect() and returns False.
AuthReturns ==
    /\ ctl.pc = "auth"
    /\ req[CtlSlot].pc = "done"
    /\ IF req[CtlSlot].ret = "response" /\ ~req[CtlSlot].err
       THEN /\ authenticated' = TRUE
            /\ IF ctl.in_reconnect
               THEN /\ ctl' = [ctl EXCEPT !.pc = "restoring",
                                          !.todo = ToRestore(subscriptions)]
               ELSE /\ ctl' = CtlIdle
            /\ UNCHANGED connected
       ELSE DisconnectBegins("return")
    /\ UNCHANGED <<websocket, reconnect_attempts, message_handlers,
                   request_id_counter, pending_requests, calls, subscriptions,
                   req, listener, netVars, appVars, now>>

\* reconnect() enters _restore_subscriptions, or takes its next iteration
\* when the previous request has returned.
RestoreSubscriptions ==
    /\ \/ ctl.pc = "restoring"
       \/ ctl.pc = "restore" /\ req[CtlSlot].pc = "done"
    /\ ctl.todo # {} => request_id_counter < MaxReq
    /\ RestoreStep(ctl.todo)
    /\ UNCHANGED <<connected, authenticated, websocket, reconnect_attempts,
                   message_handlers, subscriptions, listener, netVars, appVars, now>>

\* reconnect() up to its backoff sleep.
Reconnect ==
    /\ ctl.pc = "idle"
    /\ reconnect_attempts < max_reconnect_attempts
    /\ reconnect_attempts' = reconnect_attempts + 1
    /\ ctl' = [ctl EXCEPT !.pc = "backoff", !.in_reconnect = TRUE]
    /\ UNCHANGED <<connected, authenticated, websocket, message_handlers,
                   request_id_counter, pending_requests, calls, subscriptions,
                   req, listener, netVars, appVars, now>>

\* The backoff sleep ends: reconnect() disconnects, then connects.
BackoffEnds ==
    /\ ctl.pc = "backoff"
    /\ DisconnectBegins("open")
    /\ UNCHANGED <<websocket, reconnect_attempts, message_handlers,
                   request_id_counter, pending_requests, calls, subscriptions,
                   req, listener, netVars, appVars, now>>

\* subscribe_ticks registers the callback and sends the subscribe request.
SubscribeTicks ==
    /\ ctl.pc = "idle"
    /\ TickTopic \notin subscriptions
    /\ MayBegin(CtlSlot)
    /\ message_handlers' = message_handlers \cup {"tick"}
    /\ SendRequestBegin(CtlSlot, "ticks", connected, websocket)
    /\ ctl' = [ctl EXCEPT !.pc = "subscribing"]
    /\ UNCHANGED <<connected, authenticated, websocket, reconnect_attempts,
                   subscriptions, listener, netVars, appVars, now>>

SubscribeReturns ==
    /\ ctl.pc = "subscribing"
    /\ req[CtlSlot].pc = "done"
    /\ subscriptions' = IF req[CtlSlot].ret = "response" /\ ~req[CtlSlot].err
                        THEN subscriptions \cup {TickTopic}
                        ELSE subscriptions
    /\ ctl' = CtlIdle
    /\ UNCHANGED <<connected, authenticated, websocket, reconnect_attempts,
                   message_handlers, request_id_counter, pending_requests, calls,
                   req, listener, netVars, appVars, now>>

(***************************************************************************)
(* RiskManager (src/risk_manager.py).                                      *)
(* Risk scores are counted in tenths of a point, confidences in hundredths;*)
(* the balances and confidences the model draws make every contribution a  *)
(* whole number of tenths, so no rounding is lost.  The warnings of a      *)
(* TradeRisk, which nothing reads, are left out.                           *)
(***************************************************************************)
Abs(x) == IF x < 0 THEN 0 - x ELSE x
Min(a, b) == IF a < b THEN a ELSE b
Max(a, b) == IF a > b THEN a ELSE b

\* The risk scores, in tenths, at which max_stake * stake_multiplier lies
\* half-way between two cents and the binary float that the code computes
\* for it lies above the half cent: 1.0 - risk_score / 100 is not exact.
\* At the other scores with a half cent the float lies below it.  The
\* scores are those for a max_stake of 0.25 and, first, of 0.01.
HalfCentRoundsUp ==
    IF trading_config.max_stake = 1 THEN {500}
    ELSE {100, 180, 220, 420, 460, 580, 620, 700, 740}

\* The recommended stake cut down to whole cents instead of rounded.
TruncatedStake(risk_score, stake_multiplier) ==
    Min(trading_config.max_stake * stake_multiplier,
        trading_config.max_stake * 1000) \div 1000

\* round(min(max_stake * stake_multiplier, max_stake), 2) in cents, for a
\* risk score below 75 and its stake_multiplier in thousandths
RoundedStake(risk_score, stake_multiplier) ==
    LET n == Min(trading_config.max_stake * stake_multiplier,
                 trading_config.max_stake * 1000)
        q == n \div 1000
        r == n % 1000
    IN  IF 2 * r > 1000 \/ (2 * r = 1000 /\ risk_score \in HalfCentRoundsUp)
        THEN q + 1 ELSE q

\* TradingStats()
NewStats == [total_trades |-> 0, winning_trades |-> 0, losing_trades |-> 0,
             consecutive_losses |-> 0, consecutive_wins |-> 0,
             max_consecutive_losses |-> 0, total_profit_loss |-> 0,
             daily_profit_loss |-> 0, last_trade_time |-> 0]

\* _get_daily_reset_time / _get_hourly_reset_time at time t
get_daily_reset_time(t) == ((t \div Day) + 1) * Day
get_hourly_reset_time(t) == ((t \div Hour) + 1) * Hour

\* A part of the assessment: its score and its rejections.
Part(score, rejections) == [risk_score |-> score, rejections |-> rejections]

assess_balance_risk(bal) ==
    LET floor == IF bal < min_balance_to_trade
                 THEN Part(500, <<"Balance too low">>)
                 ELSE IF 2 * bal < 3 * min_balance_to_trade
                 THEN Part(200, <<>>)
                 ELSE Part(0, <<>>)
        \* stake_percentage, in tenths of a percent
        stake_percentage == (trading_config.max_stake * 1000) \div bal
    IN  IF stake_percentage > 100
        THEN Part(floor.risk_score + Min(stake_percentage - 100, 250),
                  floor.rejections)
        ELSE floor

get_daily_trade_count(st) == st.total_trades

assess_daily_risk(st) ==
    LET d == st.daily_profit_loss
        loss == IF Abs(d) >= max_daily_loss
                THEN IF d < 0 THEN Part(500, <<"Daily loss limit reached">>)
                              ELSE Part(0, <<>>)
                ELSE IF 10 * Abs(d) >= 8 * max_daily_loss THEN Part(300, <<>>)
                ELSE IF 10 * Abs(d) >= 6 * max_daily_loss THEN Part(150, <<>>)
                ELSE Part(0, <<>>)
        daily_trades == get_daily_trade_count(st)
    IN  IF daily_trades >= max_trades_per_day
        THEN Part(loss.risk_score + 300,
                  loss.rejections \o <<"Daily trade limit reached">>)
        ELSE IF 10 * daily_trades >= 9 * max_trades_per_day
        THEN Part(loss.risk_score + 150, loss.rejections)
        ELSE loss

assess_consecutive_risk(st) ==
    IF st.consecutive_losses >= max_consecutive_losses
    THEN Part(400, <<"Consecutive loss limit reached">>)
    ELSE IF st.consecutive_losses >= max_consecutive_losses - 1 THEN Part(250, <<>>)
    ELSE IF st.consecutive_losses >= max_consecutive_losses - 2 THEN Part(150, <<>>)
    ELSE Part(0, <<>>)

\* The frequency assessment without its rejection.
FrequencyNeverRejects(hourly) ==
    IF 10 * hourly >= 9 * risk_config.max_trades_per_hour
    THEN Part(100, <<>>) ELSE Part(0, <<>>)

assess_frequency_risk(hourly) ==
    IF hourly >= risk_config.max_trades_per_hour
    THEN Part(250, <<"Hourly trade limit reached">>)
    ELSE IF 10 * hourly >= 9 * risk_config.max_trades_per_hour THEN Part(100, <<>>)
    ELSE Part(0, <<>>)

\* current_drawdown >= pct percent, for a peak above zero
DrawdownAtLeast(peak, bal, pct10) == (peak - bal) * 1000 >= pct10 * peak

assess_drawdown_risk(peak, bal) ==
    IF peak > 0
    THEN IF DrawdownAtLeast(peak, bal, 10 * max_drawdown_percent)
         THEN Part(500, <<"Maximum drawdown exceeded">>)
         ELSE IF DrawdownAtLeast(peak, bal, 8 * max_drawdown_percent)
         THEN Part(300, <<>>)
         ELSE IF DrawdownAtLeast(peak, bal, 6 * max_drawdown_percent)
         THEN Part(150, <<>>)
         ELSE Part(0, <<>>)
    ELSE Part(0, <<>>)

assess_signal_risk(signal) ==
    Part((IF signal.confidence < 70 THEN (70 - signal.confidence) * 3 ELSE 0)
         + (IF signal.duration <= 3 THEN 50 ELSE 0), <<>>)

TradeRisk(decision, stake, level, score, reasons) ==
    [decision |-> decision, recommended_stake |-> stake, risk_level |-> level,
     risk_score |-> score, rejection_reasons |-> reasons]

\* assess_trade_risk from step 2 on: the gate is not paused.
Assess(signal, st, bal, peak, hourly) ==
    LET parts == <<assess_balance_risk(bal), assess_daily_risk(st),
                   assess_consecutive_risk(st), assess_frequency_risk(hourly),
                   assess_drawdown_risk(peak, bal), assess_signal_risk(signal)>>
        risk_score == parts[1].risk_score + parts[2].risk_score
                      + parts[3].risk_score + parts[4].risk_score
                      + parts[5].risk_score + parts[6].risk_score
        rejection_reasons == parts[1].rejections \o parts[2].rejections
                             \o parts[3].rejections \o parts[4].rejections
                             \o parts[5].rejections
        \* stake_multiplier, in thousandths
        stake_multiplier == Max(100, 1000 - risk_score)
        recommended_stake == RoundedStake(risk_score, stake_multiplier)
    IN  IF rejection_reasons # <<>>
        THEN TradeRisk("REJECTED", 0, "EXTREME", risk_score, rejection_reasons)
        ELSE IF risk_score >= 750
        THEN TradeRisk("REJECTED", 0, "EXTREME", risk_score, <<"Risk score too high">>)
        ELSE IF risk_score >= 500
        THEN TradeRisk(IF stake_multiplier < 800 THEN "REDUCED" ELSE "APPROVED",
                       recommended_stake, "HIGH", risk_score, <<>>)
        ELSE IF risk_score >= 250
        THEN TradeRisk(IF stake_multiplier < 900 THEN "REDUCED" ELSE "APPROVED",
                       recommended_stake, "MODERATE", risk_score, <<>>)
        ELSE TradeRisk("APPROVED", recommended_stake, "LOW", risk_score, <<>>)

\* A daily reset that also starts the streaks afresh.
DailyResetClearsStreaks(st) ==
    IF now >= daily_reset_time
    THEN [st EXCEPT !.daily_profit_loss = 0, !.consecutive_losses = 0,
                    !.consecutive_wins = 0]
    ELSE st

\* The statistics as _check_daily_reset leaves them.
check_daily_reset(st) ==
    IF now >= daily_reset_time THEN [st EXCEPT !.daily_profit_loss = 0] ELSE st

\* hourly_trade_count as _check_hourly_reset leaves it.
check_hourly_reset(hourly) ==
    IF now >= hourly_reset_time THEN 0 ELSE hourly

\* assess_trade_risk(signal, current_balance), for a balance above zero:
\* the balance and the peak are taken, the daily and hourly windows roll
\* over when due, and a pause that has run out is lifted, before the
\* assessment proper.
assess_trade_risk(signal, bal) ==
    LET peak == IF bal > peak_balance THEN bal ELSE peak_balance
        st == check_daily_reset(stats)
        hourly == check_hourly_reset(hourly_trade_count)
    IN  /\ current_balance' = bal
        /\ peak_balance' = peak
        /\ stats' = st
        /\ daily_reset_time' = IF now >= daily_reset_time
                               THEN get_daily_reset_time(now) ELSE daily_reset_time
        /\ hourly_trade_count' = hourly
        /\ hourly_reset_time' = IF now >= hourly_reset_time
                                THEN get_hourly_reset_time(now) ELSE hourly_reset_time
        /\ UNCHANGED <<trading_config, risk_config, risk_data>>
        /\ IF trading_paused /\ now < pause_until
           THEN /\ assessment' = <<TradeRisk("REJECTED", 0, "EXTREME", 1000,
                                       <<"Trading paused: " \o pause_reason>>)>>
                /\ UNCHANGED <<trading_paused, pause_reason, pause_until>>
           ELSE \* _resume_trading() when the pause has run out
                /\ trading_paused' = FALSE
                /\ pause_reason' = IF trading_paused THEN "" ELSE pause_reason
                /\ pause_until' = IF trading_paused THEN 0 ELSE pause_until
                /\ assessment' = <<Assess(signal, st, bal, peak, hourly)>>

\* The pause state as _pause_trading(reason, duration_seconds) leaves it.
pause_trading(reason, duration_seconds) ==
    [trading_paused |-> TRUE, pause_reason |-> reason,
     pause_until |-> now + duration_seconds]

get_seconds_until_daily_reset == daily_reset_time - now

\* _check_auto_pause_conditions on the statistics st: the three checks run
\* in order, and each breach calls _pause_trading.
check_auto_pause_conditions(st) ==
    LET p0 == [trading_paused |-> trading_paused, pause_reason |-> pause_reason,
               pause_until |-> pause_until]
        p1 == IF st.consecutive_losses >= max_consecutive_losses
              THEN pause_trading("Consecutive loss limit reached", cooldown_minutes * 60)
              ELSE p0
        p2 == IF Abs(st.daily_profit_loss) >= max_daily_loss
                 /\ st.daily_profit_loss < 0
              THEN pause_trading("Daily loss limit reached",
                                 get_seconds_until_daily_reset)
              ELSE p1
        p3 == IF peak_balance > 0
                 /\ DrawdownAtLeast(peak_balance, current_balance,
                                    10 * max_drawdown_percent)
              THEN pause_trading("Maximum drawdown exceeded", cooldown_minutes * 60)
              ELSE p2
    IN  p3

\* The statistics updated without ending the streak of the other kind.
StatsKeepingOtherStreak(st, profit_loss, was_winner, t) ==
    LET s1 == [st EXCEPT !.total_trades = @ + 1,
                         !.total_profit_loss = @ + profit_loss,
                         !.daily_profit_loss = @ + profit_loss,
                         !.last_trade_time = t]
    IN  IF was_winner
        THEN [s1 EXCEPT !.winning_trades = @ + 1,
                        !.consecutive_wins = @ + 1]
        ELSE [s1 EXCEPT !.losing_trades = @ + 1,
                        !.consecutive_losses = @ + 1,
                        !.max_consecutive_losses =
                            Max(@, s1.consecutive_losses + 1)]

\* The statistics as record_trade_result(profit_loss, was_winner) updates
\* them at time t.
RecordedStats(st, profit_loss, was_winner, t) ==
    LET s1 == [st EXCEPT !.total_trades = @ + 1,
                         !.total_profit_loss = @ + profit_loss,
                         !.daily_profit_loss = @ + profit_loss,
                         !.last_trade_time = t]
    IN  IF was_winner
        THEN [s1 EXCEPT !.winning_trades = @ + 1,
                        !.consecutive_wins = @ + 1,
                        !.consecutive_losses = 0]
        ELSE [s1 EXCEPT !.losing_trades = @ + 1,
                        !.consecutive_losses = @ + 1,
                        !.consecutive_wins = 0,
                        !.max_consecutive_losses =
                            Max(@, s1.consecutive_losses + 1)]

\* What _save_risk_data writes: the statistics st and the pause state p.
\* The balances it writes as well are left out: main.py stores the balance
\* the venue reports over them right after they are loaded.
SavedRiskData(st, p) ==
    [stats |-> st, trading_paused |-> p.trading_paused,
     pause_reason |-> p.pause_reason, pause_until |-> p.pause_until]

\* record_trade_result(profit_loss, was_winner)
record_trade_result(profit_loss, was_winner) ==
    LET s2 == RecordedStats(stats, profit_loss, was_winner, now)
        p == check_auto_pause_conditions(s2)
    IN  /\ stats' = s2
        /\ hourly_trade_count' = hourly_trade_count + 1
        /\ trading_paused' = p.trading_paused
        /\ pause_reason' = p.pause_reason
        /\ pause_until' = p.pause_until
        /\ assessment' = <<>>
        /\ risk_data' = <<SavedRiskData(s2, p)>>
        /\ UNCHANGED <<current_balance, peak_balance, daily_reset_time,
                       hourly_reset_time, trading_config, risk_config>>

\* A resume that lifts the pause and leaves its reason and its end in place.
ResumeKeepingWindow ==
    /\ trading_paused' = FALSE
    /\ assessment' = <<>>
    /\ UNCHANGED <<pause_reason, pause_until, stats, current_balance,
                   peak_balance, daily_reset_time, hourly_trade_count,
                   hourly_reset_time, trading_config, risk_config, risk_data>>

\* force_resume_trading()
force_resume_trading ==
    /\ trading_paused' = FALSE
    /\ pause_reason' = IF trading_paused THEN "" ELSE pause_reason
    /\ pause_until' = IF trading_paused THEN 0 ELSE pause_until
    /\ assessment' = <<>>
    /\ UNCHANGED <<stats, current_balance, peak_balance, daily_reset_time,
                   hourly_trade_count, hourly_reset_time, trading_config,
                   risk_config, risk_data>>

\* The configuration with the defaults of config/settings.py.
DefaultConfig ==
    /\ trading_config = [max_stake |-> max_stake]
    /\ risk_config = [max_trades_per_hour |-> max_trades_per_hour]

\* RiskManager.__init__ at time t with no persisted data, and the balance
\* main.py stores into it at start-up (0 before that); the configuration
\* apart.
InitRiskState(t, balance) ==
    /\ stats = NewStats
    /\ current_balance = balance
    /\ peak_balance = balance
    /\ daily_reset_time = get_daily_reset_time(t)
    /\ hourly_trade_count = 0
    /\ hourly_reset_time = get_hourly_reset_time(t)
    /\ trading_paused = FALSE
    /\ pause_reason = ""
    /\ pause_until = 0
    /\ assessment = <<>>
    /\ risk_data = <<>>

InitRiskManager(t, balance) == DefaultConfig /\ InitRiskState(t, balance)


(***************************************************************************)
(* TradeExecutor (src/trade_executor.py).  A Trade is known by its number  *)
(* (the value of trade_counter that named it); `trades` holds the Trade    *)
(* objects, the collections of the executor hold trade numbers.            *)
(***************************************************************************)
NewTrade(stake, duration, entry_time) ==
    [stake |-> stake, duration |-> duration, entry_time |-> entry_time,
     status |-> "PENDING", contract_id |-> 0, exit_price |-> <<>>,
     exit_time |-> <<>>, profit_loss |-> <<>>]

NoSubscriptions == [c \in {} |-> 0]

\* The subscriptions left as they were.
NotSubscribed(m, contract_id, trade_id) == m

\* contract_subscriptions[contract_id] = trade_id
Subscribed(m, contract_id, trade_id) ==
    [c \in DOMAIN m \cup {contract_id} |-> IF c = contract_id THEN trade_id ELSE m[c]]

\* del contract_subscriptions[contract_id], when present
Unsubscribed(m, contract_id) == [c \in DOMAIN m \ {contract_id} |-> m[c]]

\* The trade numbers of `ts` in the order the active_trades dict yields them.
InOrder(ts) == SelectSeq([i \in 1..trade_counter |-> i], LAMBDA i : i \in ts)

\* TradeExecutor.__init__; no contract is held at the venue.
InitExecutor ==
    /\ trades = <<>>
    /\ active_trades = {}
    /\ completed_trades = <<>>
    /\ contract_subscriptions = NoSubscriptions
    /\ trade_counter = 0
    /\ recorded = <<>>
    /\ exec = [pc |-> "idle", trade |-> 0, result |-> ""]
    /\ current_time = <<>>
    /\ venueContracts = 0

StopperIdle == [pc |-> "none", ws |-> 0]

\* V10ScalpingBot.__init__: no shutdown has been requested.
InitBot ==
    /\ shutdown_requested = FALSE
    /\ stopper = StopperIdle

\* An assessment that lets every trade through.
NeverRejected(risk_assessment) == FALSE

\* risk_assessment.decision == TradeDecision.REJECTED
Rejected(risk_assessment) == risk_assessment.decision = "REJECTED"

\* execute_trade(signal, current_balance) up to the await in buy_contract:
\* the risk assessment, and for a trade that is not rejected the Trade
\* object and the buy request.
\* execute_trade up to its first await; the model stops at order_cap
\* trades.
SubmitTrade(signal, bal, order_cap) ==
    /\ exec.pc = "idle"
    /\ MayBegin("app")
    /\ assess_trade_risk(signal, bal)
    /\ IF Rejected(assessment'[1])
       THEN /\ exec' = [pc |-> "idle", trade |-> 0, result |-> "REJECTED"]
            /\ UNCHANGED <<trades, trade_counter, recorded, req, calls,
                           request_id_counter, pending_requests>>
       ELSE /\ trade_counter < order_cap
            /\ trade_counter' = trade_counter + 1
            /\ trades' = Append(trades, NewTrade(assessment'[1].recommended_stake,
                                                 signal.duration, now))
            /\ recorded' = Append(recorded, 0)
            /\ exec' = [pc |-> "placing", trade |-> trade_counter + 1,
                        result |-> ""]
            /\ SendRequestBegin("app", "buy", connected, websocket)
    /\ UNCHANGED <<connected, authenticated, websocket, reconnect_attempts,
                   message_handlers, subscriptions, listener, ctl, netVars,
                   active_trades, completed_trades, contract_subscriptions,
                   current_time, venueContracts, botVars,
                   now>>

ExecuteTrade(signal, bal) == SubmitTrade(signal, bal, MaxOrders)

\* buy_contract returns to _place_order and execute_trade: with the `buy`
\* object of a response that carries no error the trade becomes ACTIVE,
\* otherwise ERROR.
PlaceOrderReturns ==
    /\ exec.pc = "placing"
    /\ req["app"].pc = "done"
    /\ LET t == exec.trade
           contract_id == req["app"].cid
       IN  IF req["app"].ret = "response" /\ ~req["app"].err
           THEN /\ trades' = [trades EXCEPT ![t].status = "ACTIVE",
                                            ![t].contract_id = contract_id]
                /\ active_trades' = active_trades \cup {t}
                /\ contract_subscriptions' =
                       IF contract_id # 0
                       THEN Subscribed(contract_subscriptions, contract_id, t)
                       ELSE contract_subscriptions
                /\ exec' = [pc |-> "idle", trade |-> t, result |-> "SUCCESS"]
           ELSE /\ trades' = [trades EXCEPT ![t].status = "ERROR"]
                /\ exec' = [pc |-> "idle", trade |-> t, result |-> "FAILED"]
                /\ UNCHANGED <<active_trades, contract_subscriptions>>
    /\ UNCHANGED <<clientVars, taskVars, netVars, riskVars, completed_trades,
                   trade_counter, recorded, current_time, venueContracts, botVars,
                   now>>

\* handle_contract_update routing a push to every trade that ever had the
\* contract id, finished or not.
RoutedToAnyTrade(contract_id) ==
    IF contract_id # 0
       /\ \E t \in 1..trade_counter : trades[t].contract_id = contract_id
    THEN CHOOSE t \in 1..trade_counter : trades[t].contract_id = contract_id
    ELSE 0

\* The trade handle_contract_update routes a push to; 0 when it returns early.
RoutedTrade(contract_id) ==
    IF contract_id # 0
       /\ contract_id \in DOMAIN contract_subscriptions
       /\ contract_subscriptions[contract_id] \in active_trades
    THEN contract_subscriptions[contract_id]
    ELSE 0

\* A sale that only returns the buy price counted as a win.
WonOrEven(profit_loss) == profit_loss >= 0

\* if trade.profit_loss > 0, in _finalize_trade
Won(profit_loss) == profit_loss > 0

\* handle_contract_update(contract_data) with _finalize_trade, which run
\* without a real suspension.  float(None) raises in _finalize_trade when the
\* push has no sell_spot and the trade has no exit price yet: the trade then
\* keeps its status and its place.
handle_contract_update(contract_info) ==
    LET t == RoutedTrade(contract_info.contract_id) IN
    IF t = 0
    THEN UNCHANGED <<trades, active_trades, completed_trades,
                     contract_subscriptions, recorded, riskVars>>
    ELSE
    LET trade == trades[t]
        exit_price == IF contract_info.current_spot # <<>>
                      THEN contract_info.current_spot ELSE trade.exit_price
        sell_price == IF contract_info.sell_price # <<>>
                      THEN contract_info.sell_price[1] ELSE 0
        buy_price == IF contract_info.buy_price # <<>>
                     THEN contract_info.buy_price[1] ELSE trade.stake
        profit_loss == sell_price - buy_price
    IN  IF ~contract_info.is_sold
        THEN /\ trades' = [trades EXCEPT ![t].exit_price = exit_price]
             /\ UNCHANGED <<active_trades, completed_trades,
                            contract_subscriptions, recorded, riskVars>>
        ELSE IF contract_info.sell_spot = <<>> /\ exit_price = <<>>
        THEN /\ trades' = [trades EXCEPT ![t].exit_time = <<now>>]
             /\ UNCHANGED <<active_trades, completed_trades,
                            contract_subscriptions, recorded, riskVars>>
        ELSE /\ trades' = [trades EXCEPT
                  ![t].exit_time = <<now>>,
                  ![t].exit_price = IF contract_info.sell_spot # <<>>
                                    THEN contract_info.sell_spot ELSE exit_price,
                  ![t].profit_loss = <<profit_loss>>,
                  ![t].status = IF Won(profit_loss) THEN "WON" ELSE "LOST"]
             /\ active_trades' = active_trades \ {t}
             /\ contract_subscriptions' =
                    Unsubscribed(contract_subscriptions, trade.contract_id)
             /\ completed_trades' = Append(completed_trades, t)
             /\ record_trade_result(profit_loss, Won(profit_loss))
             /\ recorded' = [recorded EXCEPT ![t] = @ + 1]

\* current_time > expected_expiry, with expected_expiry = entry_time + duration * 1.1
Overdue(trade, t) == 10 * (t - trade.entry_time) > 11 * trade.duration

\* check_expired_trades(): every overdue active trade that has a contract id
\* is marked ERROR and moved to the completed trades.
CheckExpiredTrades ==
    LET expired_trades == {t \in active_trades : Overdue(trades[t], now)}
        moved == {t \in expired_trades : trades[t].contract_id # 0}
    IN  /\ current_time' = <<now>>
        /\ trades' = [t \in DOMAIN trades |->
                         IF t \in moved
                         THEN [trades[t] EXCEPT !.status = "ERROR",
                                                !.exit_time = <<now>>]
                         ELSE trades[t]]
        /\ active_trades' = active_trades \ moved
        /\ completed_trades' = completed_trades \o InOrder(moved)
        /\ UNCHANGED <<clientVars, taskVars, netVars, riskVars,
                       contract_subscriptions, trade_counter, recorded, exec,
                       venueContracts, botVars,
                   now>>

\* cancel_all_active_trades()
cancel_all_active_trades ==
    /\ trades' = [t \in DOMAIN trades |->
                     IF t \in active_trades
                     THEN [trades[t] EXCEPT !.status = "CANCELLED",
                                            !.exit_time = <<now>>]
                     ELSE trades[t]]
    /\ active_trades' = {}
    /\ completed_trades' = completed_trades \o InOrder(active_trades)
    /\ contract_subscriptions' = NoSubscriptions

\* TradeExecutor.shutdown(): the active trades, if any, are cancelled.
trade_executor_shutdown ==
    IF active_trades # {}
    THEN cancel_all_active_trades
    ELSE UNCHANGED <<trades, active_trades, completed_trades,
                     contract_subscriptions>>

Shutdown ==
    /\ trade_executor_shutdown
    /\ UNCHANGED <<clientVars, taskVars, netVars, riskVars, trade_counter,
                   recorded, exec, current_time, venueContracts, botVars,
                   now>>

(***************************************************************************)
(* The venue's side of an order: it fills a buy request under a fresh      *)
(* contract id, and reports on a contract with proposal_open_contract      *)
(* frames.                                                                 *)
(***************************************************************************)
VenueFillsOrder(r) ==
    /\ sockOpen
    /\ r \in venueReqs
    /\ r.kind = "buy"
    /\ Len(inbound) < MaxInbound
    /\ venueContracts' = venueContracts + 1
    /\ inbound' = Append(inbound, Frame(r.id, "buy", FALSE, venueContracts + 1, NoInfo))
    /\ venueReqs' = venueReqs \ {r}
    /\ UNCHANGED <<clientVars, taskVars, sockOpen, sockGen, venueSubs, riskVars,
                   orderVars, botVars, now>>

\* The proposal_open_contract objects the venue sends about a contract: a
\* price update; a sale above the buy price; a sale at the buy price; a sale
\* that pays nothing; and a sale reported without spot or prices.
ContractInfos(contract_id) ==
    {[NoInfo EXCEPT !.contract_id = contract_id, !.current_spot = <<1>>],
     [NoInfo EXCEPT !.contract_id = contract_id, !.is_sold = TRUE,
                    !.sell_spot = <<1>>, !.sell_price = <<45>>,
                    !.buy_price = <<max_stake>>],
     [NoInfo EXCEPT !.contract_id = contract_id, !.is_sold = TRUE,
                    !.sell_spot = <<1>>, !.sell_price = <<max_stake>>,
                    !.buy_price = <<max_stake>>],
     [NoInfo EXCEPT !.contract_id = contract_id, !.is_sold = TRUE,
                    !.sell_spot = <<1>>],
     [NoInfo EXCEPT !.contract_id = contract_id, !.is_sold = TRUE]}

VenuePushesContract(contract_info) ==
    /\ sockOpen
    /\ Len(inbound) < MaxInbound
    /\ inbound' = Append(inbound, Frame(0, "proposal_open_contract", FALSE,
                                        contract_info.contract_id, contract_info))
    /\ UNCHANGED <<clientVars, taskVars, sockOpen, sockGen, venueReqs, venueSubs,
                   appVars, now>>

(***************************************************************************)
(* The client on its own: the transport, the venue, the pump, the          *)
(* controlling task and the application tasks.                             *)
(***************************************************************************)
\* DerivWebSocketClient.__init__, and the task about to call connect().
ClientConstructed ==
    /\ connected = FALSE
    /\ authenticated = FALSE
    /\ websocket = 0
    /\ reconnect_attempts = 0
    /\ message_handlers = {}
    /\ request_id_counter = 0
    /\ pending_requests = {}
    /\ calls = <<>>
    /\ subscriptions = {}
    /\ req = [c \in Slots |-> Idle]
    /\ listener = "none"
    /\ ctl = [CtlIdle EXCEPT !.pc = "start"]
    /\ sockOpen = FALSE
    /\ sockGen = 0
    /\ inbound = <<>>
    /\ venueReqs = {}
    /\ venueSubs = {}

InitClient ==
    /\ ClientConstructed
    /\ now = 0
    /\ InitRiskManager(0, 0)
    /\ InitExecutor
    /\ InitBot

NextClient ==
    \/ \E c \in Callers : AppRequest(c, KindOf(c))
    \/ \E c \in Slots : SendCompletes(c)
    \/ \E c \in Slots : RequestTimeout(c)
    \/ \E r \in venueReqs, e \in BOOLEAN : VenueResponds(r, e)
    \/ VenuePushesTick
    \/ ConnectionDrops
    \/ \E signal \in BOOLEAN : HandleMessage(signal)
    \/ TickHandlerReturns
    \/ ListenerSeesClose
    \/ \E ok \in BOOLEAN : ConnectOpens(ok)
    \/ AuthReturns
    \/ DisconnectEnds
    \/ Disconnect
    \/ HeartbeatCancelled
    \/ RestoreSubscriptions
    \/ Reconnect
    \/ BackoffEnds
    \/ SubscribeTicks
    \/ SubscribeReturns

SpecClient == InitClient /\ [][NextClient]_vars

(***************************************************************************)
(* The client under load: from the state connect() leaves (transport open, *)
(* authorize answered), the application tasks issue requests against a     *)
(* venue that answers each of them, while the clock advances.              *)
(***************************************************************************)
\* The client as connect() leaves it on success.
ClientReady ==
    /\ connected = TRUE
    /\ authenticated = TRUE
    /\ websocket = 1
    /\ reconnect_attempts = 0
    /\ message_handlers = {}
    /\ request_id_counter = 1
    /\ pending_requests = {}
    /\ calls = <<0>>
    /\ subscriptions = {}
    /\ req = [c \in Slots |-> Idle]
    /\ listener = "reading"
    /\ ctl = CtlIdle
    /\ sockOpen = TRUE
    /\ sockGen = 1
    /\ inbound = <<>>
    /\ venueReqs = {}
    /\ venueSubs = {}

InitRate ==
    /\ ClientReady
    /\ now = 0
    /\ InitRiskManager(0, 0)
    /\ InitExecutor
    /\ InitBot

\* An application task calls send_request; the model stops at MaxReq
\* requests past the limiter's capacity.
RateRequest(c) ==
    /\ c \in Callers
    /\ req[c].pc \in {"idle", "done"}
    /\ request_id_counter < max_calls + MaxReq
    /\ SendRequestBegin(c, KindOf(c), connected, websocket)
    /\ UNCHANGED <<connected, authenticated, websocket, reconnect_attempts,
                   message_handlers, subscriptions, listener, ctl, netVars,
                   appVars, now>>

\* Time passes, up to `horizon`.
AdvanceTime(dt, horizon) ==
    /\ now + dt <= horizon
    /\ now' = now + dt
    /\ UNCHANGED <<clientVars, taskVars, netVars, appVars>>

NextRate ==
    \/ \E c \in Callers : RateRequest(c)
    \/ \E c \in Callers : RateLimitedReturn(c)
    \/ \E c \in Callers : SendCompletes(c)
    \/ \E r \in venueReqs : VenueResponds(r, FALSE)
    \/ HandleMessage(FALSE)
    \/ AdvanceTime(time_window, time_window * MaxWindows)

SpecRate == InitRate /\ [][NextRate]_vars

(***************************************************************************)
(* The risk manager on its own: a caller assesses candidate trades and     *)
(* reports results, the operator may force a resume, and the clock runs    *)
(* from an hour before UTC midnight in half-hour steps.                    *)
(***************************************************************************)
Balances    == {125, 500, 1000}
Confidences == {60, 80}
Durations   == {3, 5}
Signals     == [confidence : Confidences, duration : Durations]

\* What _finalize_trade reports: a stake lost, or a payout of twice the
\* stake.
LostOutcome == [profit_loss |-> 0 - max_stake, was_winner |-> FALSE]
WonOutcome  == [profit_loss |-> max_stake, was_winner |-> TRUE]
Outcomes    == {LostOutcome, WonOutcome}

RiskStart == Day - Hour
ClockStep == Hour \div 2

InitRisk ==
    /\ ClientConstructed
    /\ now = RiskStart
    /\ \E balance \in Balances : InitRiskManager(RiskStart, balance)
    /\ InitExecutor
    /\ InitBot

AssessTradeRisk(signal, bal) ==
    /\ assess_trade_risk(signal, bal)
    /\ UNCHANGED <<clientVars, taskVars, netVars, orderVars, venueContracts, botVars,
                   now>>

RecordTradeResult(o) ==
    /\ stats.total_trades < MaxTrades
    /\ record_trade_result(o.profit_loss, o.was_winner)
    /\ UNCHANGED <<clientVars, taskVars, netVars, orderVars, venueContracts, botVars,
                   now>>

ForceResumeTrading ==
    /\ force_resume_trading
    /\ UNCHANGED <<clientVars, taskVars, netVars, orderVars, venueContracts, botVars,
                   now>>

NextRisk ==
    \/ \E signal \in Signals, bal \in Balances : AssessTradeRisk(signal, bal)
    \/ \E o \in Outcomes : RecordTradeResult(o)
    \/ ForceResumeTrading
    \/ AdvanceTime(ClockStep, RiskStart + ClockStep * MaxRiskClock)

SpecRisk == InitRisk /\ [][NextRisk]_vars

\* The same caller with the clock started half an hour before UTC midnight
\* and run in steps of an hour: the daily window and the hourly window roll
\* over together at the first assessment after midnight, and the hourly
\* window rolls over alone an hour later.
RolloverStart == Day - ClockStep
RolloverBalances == {125, 1000}
RolloverSignals == [confidence : Confidences, duration : {5}]

InitRollover ==
    /\ ClientConstructed
    /\ now = RolloverStart
    /\ \E balance \in RolloverBalances : InitRiskManager(RolloverStart, balance)
    /\ InitExecutor
    /\ InitBot

NextRollover ==
    \/ \E signal \in RolloverSignals, bal \in RolloverBalances :
           AssessTradeRisk(signal, bal)
    \/ \E o \in Outcomes : RecordTradeResult(o)
    \/ ForceResumeTrading
    \/ AdvanceTime(Hour, RolloverStart + Hour * MaxRiskClock)

SpecRollover == InitRollover /\ [][NextRollover]_vars

(***************************************************************************)
(* assess_trade_risk applied to the states a trading history leaves.  The  *)
(* history is: wins on earlier days, then today some losses, some wins and *)
(* a closing run of losses, recorded either all within the current hour or *)
(* all before it; the operator has resumed trading after any pause, and    *)
(* the last assessment saw the balance at its peak.                        *)
(***************************************************************************)
AssessBalances == {125, 200, 250, 350, 500, 1000}
EarlierWins    == {0, 85, 100}
LossesBefore   == {0, 3}
WinsToday      == {0, 1, 10, 15}
LossesLast     == 0..MaxLossRun

\* The statistics after n more results o, recorded at time t.
RECURSIVE StatsAfter(_, _, _, _)
StatsAfter(st, n, o, t) ==
    IF n = 0 THEN st
    ELSE \* each result is recorded before the next one is
         LET recorded_once == RecordedStats(st, o.profit_loss, o.was_winner, t)
         IN  IF recorded_once.total_trades = st.total_trades + 1
             THEN StatsAfter(recorded_once, n - 1, o, t)
             ELSE st

\* The values of MAX_STAKE the risk manager is configured with, in cents.
StakeSettings == {1, 25}

InitHistory ==
    /\ ClientConstructed
    /\ now = RiskStart
    /\ InitExecutor
    /\ InitBot
    /\ \E balance \in AssessBalances, e \in EarlierWins, lb \in LossesBefore,
          tw \in WinsToday, ll \in LossesLast, this_hour \in BOOLEAN :
          LET \* the earlier results, recorded in two batches
              earlier == StatsAfter(
                             StatsAfter(NewStats, e \div 2, WonOutcome, RiskStart - Day),
                             e - e \div 2, WonOutcome, RiskStart - Day)
              \* _check_daily_reset at the first assessment of today
              rolled == [earlier EXCEPT !.daily_profit_loss = 0]
              today == StatsAfter(
                           StatsAfter(
                               StatsAfter(rolled, lb, LostOutcome, RiskStart),
                               tw, WonOutcome, RiskStart),
                           ll, LostOutcome, RiskStart)
          IN  /\ stats = today
              /\ current_balance = balance
              /\ peak_balance = balance
              /\ daily_reset_time = get_daily_reset_time(RiskStart)
              /\ hourly_trade_count = IF this_hour THEN lb + tw + ll ELSE 0
              /\ hourly_reset_time = get_hourly_reset_time(RiskStart)
              /\ trading_paused = FALSE
              /\ pause_reason = ""
              /\ pause_until = 0
              /\ assessment = <<>>
              \* the file as the last record_trade_result call wrote it
              /\ risk_data = IF today.total_trades = 0 THEN <<>>
                             ELSE <<SavedRiskData(today,
                                        check_auto_pause_conditions(today))>>

InitAssess == DefaultConfig /\ InitHistory

NextAssess ==
    \E signal \in Signals, bal \in AssessBalances : AssessTradeRisk(signal, bal)

SpecAssess == InitAssess /\ [][NextAssess]_vars

\* The same assessments by a risk manager configured with either stake.
InitStake ==
    /\ trading_config \in [max_stake : StakeSettings]
    /\ risk_config = [max_trades_per_hour |-> max_trades_per_hour]
    /\ InitHistory

SpecStake == InitStake /\ [][NextAssess]_vars

(***************************************************************************)
(* The executor driven through its interface: a task submits trades over a *)
(* connected client, contract updates are handed to handle_contract_update,*)
(* the trading loop sweeps, and shutdown may be called.                    *)
(***************************************************************************)
OrderSignals  == {[confidence |-> 80, duration |-> 3]}
OrderBalances == {125, 1000}
StartBalance  == 1000

InitOrders ==
    /\ ClientReady
    /\ now = 0
    /\ InitRiskManager(0, StartBalance)
    /\ InitExecutor
    /\ InitBot

HandleContractUpdate(contract_info) ==
    /\ handle_contract_update(contract_info)
    /\ UNCHANGED <<clientVars, taskVars, netVars, trade_counter, exec,
                   current_time, venueContracts, botVars,
                   now>>

\* Placing an order, from execute_trade to its return, and what can end an
\* order afterwards.
OrderStep ==
    \/ \E signal \in OrderSignals, bal \in OrderBalances : ExecuteTrade(signal, bal)
    \/ SendCompletes("app")
    \/ RequestTimeout("app")
    \/ \E r \in venueReqs, e \in BOOLEAN : VenueResponds(r, e)
    \/ \E r \in venueReqs : VenueFillsOrder(r)
    \/ HandleMessage(FALSE)
    \/ PlaceOrderReturns
    \/ CheckExpiredTrades
    \/ Shutdown
    \/ AdvanceTime(OrderClockStep, OrderClockStep * MaxOrderClock)

NextOrders ==
    \/ OrderStep
    \/ \E c \in 1..venueContracts :
          \E contract_info \in ContractInfos(c) : HandleContractUpdate(contract_info)

SpecOrders == InitOrders /\ [][NextOrders]_vars

(***************************************************************************)
(* The executor with MAX_TRADES_PER_HOUR=1 and room for one order more     *)
(* than the other runs place.                                              *)
(***************************************************************************)
InitHourly ==
    /\ ClientReady
    /\ now = 0
    /\ trading_config = [max_stake |-> max_stake]
    /\ risk_config = [max_trades_per_hour |-> 1]
    /\ InitRiskState(0, StartBalance)
    /\ InitExecutor
    /\ InitBot

NextHourly ==
    \/ \E signal \in OrderSignals, bal \in OrderBalances :
           /\ SubmitTrade(signal, bal, MaxOrders + 1)
    \/ SendCompletes("app")
    \/ RequestTimeout("app")
    \/ \E r \in venueReqs, e \in BOOLEAN : VenueResponds(r, e)
    \/ \E r \in venueReqs : VenueFillsOrder(r)
    \/ HandleMessage(FALSE)
    \/ PlaceOrderReturns
    \/ CheckExpiredTrades
    \/ AdvanceTime(OrderClockStep, OrderClockStep * MaxOrderClock)
    \/ \E c \in 1..venueContracts :
          \E contract_info \in ContractInfos(c) : HandleContractUpdate(contract_info)

SpecHourly == InitHourly /\ [][NextHourly]_vars

(***************************************************************************)
(* The process is stopped and started again.  The new process constructs   *)
(* its client, its risk manager (which reads data/risk_data.json) and its  *)
(* executor, connects, and stores the balance the venue reports            *)
(* (main.py, initialize).  What the venue and the file system hold stays.  *)
(* json.dump and json.load give back the numbers, booleans and strings of  *)
(* the saved data unchanged.                                               *)
(***************************************************************************)
\* _load_risk_data() on a new RiskManager; main.py stores the balance over
\* the peak balance it loads.
load_risk_data ==
    IF risk_data = <<>>
    THEN /\ stats' = NewStats
         /\ trading_paused' = FALSE
         /\ pause_reason' = ""
         /\ pause_until' = 0
    ELSE /\ stats' = risk_data[1].stats
         /\ trading_paused' = risk_data[1].trading_paused
         /\ pause_reason' = risk_data[1].pause_reason
         /\ pause_until' = risk_data[1].pause_until

\* RiskManager.__init__ followed by main.py's
\* risk_manager.current_balance = initial_balance and
\* risk_manager.peak_balance = initial_balance.
RestartRiskManager(balance) ==
    /\ load_risk_data
    /\ peak_balance' = balance
    /\ current_balance' = balance
    /\ daily_reset_time' = get_daily_reset_time(now)
    /\ hourly_trade_count' = 0
    /\ hourly_reset_time' = get_hourly_reset_time(now)
    /\ assessment' = <<>>
    /\ UNCHANGED <<trading_config, risk_config, risk_data>>

Restart(balance) ==
    /\ venueContracts <= MaxOrders
    /\ stats.total_trades <= MaxOrders
    \* the new client, connected and authenticated on its first transport
    /\ connected' = TRUE
    /\ authenticated' = TRUE
    /\ websocket' = 1
    /\ reconnect_attempts' = 0
    /\ message_handlers' = {}
    /\ request_id_counter' = 1
    /\ pending_requests' = {}
    /\ calls' = <<now>>
    /\ subscriptions' = {}
    /\ req' = [c \in Slots |-> Idle]
    /\ listener' = "reading"
    /\ ctl' = CtlIdle
    /\ sockOpen' = TRUE
    /\ sockGen' = 1
    /\ inbound' = <<>>
    /\ venueReqs' = {}
    /\ venueSubs' = {}
    /\ RestartRiskManager(balance)
    \* TradeExecutor.__init__
    /\ trades' = <<>>
    /\ active_trades' = {}
    /\ completed_trades' = <<>>
    /\ contract_subscriptions' = NoSubscriptions
    /\ trade_counter' = 0
    /\ recorded' = <<>>
    /\ exec' = [pc |-> "idle", trade |-> 0, result |-> ""]
    /\ current_time' = <<>>
    \* V10ScalpingBot.__init__
    /\ shutdown_requested' = FALSE
    /\ stopper' = StopperIdle
    /\ UNCHANGED <<venueContracts, now>>

NextRestart ==
    \/ NextOrders
    \/ ForceResumeTrading
    \/ \E balance \in OrderBalances : Restart(balance)

SpecRestart == InitOrders /\ [][NextRestart]_vars

(***************************************************************************)
(* The executor as main.py wires it to the client: contract updates reach  *)
(* the program only as frames the message pump reads.                      *)
(***************************************************************************)
NextWired ==
    \/ OrderStep
    \/ \E c \in 1..venueContracts :
          \E contract_info \in ContractInfos(c) : VenuePushesContract(contract_info)

SpecWired == InitOrders /\ [][NextWired]_vars

(***************************************************************************)
(* V10ScalpingBot (src/main.py) after initialize(): the trading loop       *)
(* reconnects when the client is not connected and sweeps the expired      *)
(* trades, trades are submitted and contract updates handled, and the      *)
(* signal handler or the web command starts shutdown() as a task of its    *)
(* own.  `ctl` is the trading loop inside reconnect().                     *)
(***************************************************************************)
\* shutdown() up to the `await self.websocket.close()` of disconnect(): the
\* flag is set, the executor shut down, and the client marked disconnected.
\* Without a transport disconnect() runs to its end at once.
BotShutdown ==
    /\ ~shutdown_requested
    /\ shutdown_requested' = TRUE
    /\ trade_executor_shutdown
    /\ connected' = FALSE
    /\ authenticated' = FALSE
    /\ IF websocket # 0
       THEN /\ stopper' = [pc |-> "closing", ws |-> websocket]
            /\ UNCHANGED <<req, pending_requests>>
       ELSE /\ stopper' = [pc |-> "done", ws |-> 0]
            /\ req' = CancelPending(req)
            /\ pending_requests' = {}
    /\ UNCHANGED <<websocket, reconnect_attempts, message_handlers,
                   request_id_counter, calls, subscriptions, listener, ctl,
                   netVars, riskVars, trade_counter, recorded, exec,
                   current_time, venueContracts, now>>

\* disconnect() of the shutdown task after the close of the transport it
\* named when the close began: self.websocket = None, every pending future
\* is cancelled and the table is cleared.
StopperDisconnectEnds ==
    /\ stopper.pc = "closing"
    /\ websocket' = 0
    /\ IF websocket = stopper.ws
       THEN /\ sockOpen' = FALSE
            /\ inbound' = <<>>
            /\ venueReqs' = {}
            /\ venueSubs' = {}
            /\ listener' = "none"
       ELSE UNCHANGED <<sockOpen, inbound, venueReqs, venueSubs, listener>>
    /\ req' = CancelPending(req)
    /\ pending_requests' = {}
    /\ stopper' = [pc |-> "done", ws |-> 0]
    /\ UNCHANGED <<connected, authenticated, reconnect_attempts, message_handlers,
                   request_id_counter, calls, subscriptions, ctl, sockGen,
                   riskVars, orderVars, venueContracts, shutdown_requested, now>>

\* _trading_loop: an iteration that finds the client not connected calls
\* reconnect(); the loop takes no new iteration once shutdown is requested.
LoopReconnects ==
    /\ ~shutdown_requested
    /\ ~is_connected
    /\ Reconnect

\* _trading_loop: an iteration outside reconnect() sweeps the expired trades.
LoopSweeps ==
    /\ ~shutdown_requested
    /\ ctl.pc = "idle"
    /\ CheckExpiredTrades

\* The bot trading, sweeping and being shut down, on a connection that
\* stays up until then.
NextBot ==
    \/ \E signal \in OrderSignals, bal \in OrderBalances : ExecuteTrade(signal, bal)
    \/ SendCompletes("app")
    \/ RequestTimeout("app")
    \/ \E r \in venueReqs, e \in BOOLEAN : VenueResponds(r, e)
    \/ \E r \in venueReqs : VenueFillsOrder(r)
    \/ HandleMessage(FALSE)
    \/ PlaceOrderReturns
    \/ \E c \in 1..venueContracts :
          \E contract_info \in ContractInfos(c) : HandleContractUpdate(contract_info)
    \/ LoopSweeps
    \/ AdvanceTime(OrderClockStep, OrderClockStep * MaxOrderClock)
    \/ BotShutdown
    \/ StopperDisconnectEnds

SpecBot == InitOrders /\ [][NextBot]_vars

\* The bot losing its connection, reconnecting and being shut down, with no
\* trade submitted.
NextLoop ==
    \/ ConnectionDrops
    \/ ListenerSeesClose
    \/ LoopReconnects
    \/ BackoffEnds
    \/ DisconnectEnds
    \/ \E ok \in BOOLEAN : ConnectOpens(ok)
    \/ SendCompletes(CtlSlot)
    \/ RequestTimeout(CtlSlot)
    \/ \E r \in venueReqs, e \in BOOLEAN : VenueResponds(r, e)
    \/ HandleMessage(FALSE)
    \/ AuthReturns
    \/ RestoreSubscriptions
    \/ BotShutdown
    \/ StopperDisconnectEnds

SpecLoop == InitOrders /\ [][NextLoop]_vars

\* The client with the scheduling asyncio guarantees: a send in progress
\* completes or raises, and the timer of wait_for fires.
SpecClientFair ==
    /\ SpecClient
    /\ \A c \in Slots : WF_vars(SendCompletes(c))
    /\ \A c \in Slots : WF_vars(RequestTimeout(c))

\* The client with that scheduling, a pump that reads what the transport
\* delivers and sees it close, tasks that resume when what they await is
\* done, and a heartbeat that keeps pinging: _heartbeat sends its next ping
\* whenever the ping interval has passed.
SpecClientHeartbeat ==
    /\ SpecClientFair
    /\ WF_vars(\E signal \in BOOLEAN : HandleMessage(signal))
    /\ WF_vars(ListenerSeesClose)
    /\ WF_vars(TickHandlerReturns)
    /\ WF_vars(AuthReturns)
    /\ WF_vars(DisconnectEnds)
    /\ WF_vars(BackoffEnds)
    /\ WF_vars(RestoreSubscriptions)
    /\ WF_vars(SubscribeReturns)
    /\ WF_vars(AppRequest("heartbeat", KindOf("heartbeat")))

(***************************************************************************)
(* Properties of the client.                                               *)
(***************************************************************************)

\* C1: every call that resolved with a response got the frame that carries
\* its own req_id; no two calls share a req_id, so no frame completes two
\* calls; a call still awaited is registered under its own id, and a call
\* that has resolved is no longer registered, so no later frame completes it
\* a second time (the entry of a call whose task was cancelled may remain:
\* its future is done, and a frame that finds it completes nothing).
RequestsMatchedById ==
    /\ \A c \in Slots :
          req[c].ret = "response" => req[c].id # 0 /\ req[c].got = req[c].id
    /\ \A c, d \in Slots : (c # d /\ req[c].id # 0) => req[c].id # req[d].id
    /\ \A c \in Slots : req[c].pc = "waiting" => req[c].id \in pending_requests
    /\ \A c \in Slots :
          (req[c].pc = "done" /\ req[c].ret # "caller_cancelled")
              => req[c].id \notin pending_requests

\* Two calls were outstanding and the later one was answered first.
OutOfOrderCompletion ==
    /\ req["app"].ret = "response"
    /\ req["heartbeat"].pc = "waiting"
    /\ req["heartbeat"].id # 0
    /\ req["heartbeat"].id < req["app"].id

\* C5: once the pump has detected the drop, no request is left pending.
DropFailsAllPending == listener = "closed" => pending_requests = {}

\* C6: a request in flight always resolves, whatever happens to the
\* connection meanwhile.
InFlight(c) == req[c].pc \in {"sending", "waiting"}

EveryRequestResolves == \A c \in Slots : InFlight(c) ~> ~InFlight(c)

\* A request was in flight when disconnect() cleared the table, and another
\* was left in flight on a transport that had dropped.
RequestRacedDisconnect ==
    /\ \E c \in Slots : req[c].pc = "done" /\ req[c].ret = "cancelled"
    /\ \E c \in Slots : req[c].pc = "done" /\ req[c].ret = "timeout"

\* C7: while the listener task lives and frames are buffered, the pump can
\* take the next frame, also while a subscription handler is running.
PumpNeverBlocked ==
    (listener \in {"reading", "in_handler"} /\ inbound # <<>>)
        => ENABLED (\E signal \in BOOLEAN : HandleMessage(signal))

\* C8: reconnect() reports readiness only after it has replayed every
\* subscription: is_connected() is false while a subscription it has to
\* replay has not been re-issued.
ReadyOnlyAfterReplay ==
    (ctl.in_reconnect /\ ctl.pc \in {"restoring", "restore"} /\ ctl.todo # {})
        => ~is_connected

\* C9: no request is dropped for the rate limit: a call that found the
\* limiter exhausted does not return without having been sent.
RateLimitedIsDelayedNotDropped ==
    \A c \in Slots : ~(req[c].pc = "done" /\ req[c].ret = "rate_limited")

\* C36: whatever the interleaving of the callers of send_request, at most
\* max_calls requests are sent within the time_window that ends now.
SendsPerWindowWithinLimit == Len(Pruned(calls, now)) <= max_calls

\* C39: the client is marked authenticated only while it is marked
\* connected, and is_connected() becomes true only by the success of the
\* authorize request that was sent on the transport now in use.
AuthenticatedOnCurrentTransport ==
    /\ [](authenticated => connected)
    /\ [][(~is_connected /\ is_connected')
           => /\ ctl.pc = "auth"
              /\ req[CtlSlot].pc = "done"
              /\ req[CtlSlot].kind = "authorize"
              /\ req[CtlSlot].ret = "response"
              /\ ~req[CtlSlot].err
              /\ req[CtlSlot].ws = websocket']_vars

\* C29: shutdown ends a reconnection that waits in its backoff sleep, and
\* once shutdown is requested the client opens no transport and does not
\* become connected again.
ShutdownIsTerminal ==
    [][/\ BotShutdown => ctl'.pc # "backoff"
       /\ shutdown_requested => /\ sockGen' = sockGen
                                /\ connected' => connected]_vars

\* C24: a frame that carries the req_id of a request no longer pending (it
\* timed out or was cancelled) is dropped: it completes no request and no
\* subscription handler is run for it.
LateResponseDiscarded ==
    [][\A signal \in BOOLEAN :
          (/\ inbound # <<>>
           /\ Head(inbound).req_id # 0
           /\ Head(inbound).req_id \notin pending_requests
           /\ HandleMessage(signal))
             => /\ req' = req
                /\ listener' = listener]_vars

\* C25: pending_requests holds exactly the ids of the requests in flight: an
\* id is entered when its request is begun and is gone once the request has
\* returned, by response, timeout, failed send or cancellation of its
\* caller.
PendingExactlyInFlight ==
    /\ \A id \in pending_requests : \E c \in Slots : InFlight(c) /\ req[c].id = id
    /\ \A c \in Slots : req[c].pc = "waiting" => req[c].id \in pending_requests

\* _authenticate got a response that carries an error: the venue rejected
\* the credential.
AuthRejected ==
    /\ req[CtlSlot].kind = "authorize"
    /\ req[CtlSlot].pc = "done"
    /\ req[CtlSlot].ret = "response"
    /\ req[CtlSlot].err

\* C26: once the venue has rejected the credential, the next request of the
\* task that connects and reconnects is not another authorize request.
RejectedAuthNotRetried ==
    [][AuthRejected =>
          ~(req'[CtlSlot].pc = "sending" /\ req'[CtlSlot].kind = "authorize")]_vars

\* C27: every failed reconnection attempt counts towards
\* max_reconnect_attempts, also one that opened the transport and failed to
\* authenticate: when connect() gives up inside reconnect(), the attempt is
\* still on the counter that makes reconnect() give up.
FailedAttemptIsCounted ==
    (ctl.in_reconnect /\ ctl.pc = "closing" /\ ctl.then = "return")
        => reconnect_attempts >= 1

ConsecutiveLossesRejectWithReason ==
    (assessment # <<>> /\ stats.consecutive_losses >= max_consecutive_losses)
        => /\ assessment[1].decision = "REJECTED"
           /\ assessment[1].recommended_stake = 0
           /\ \E i \in DOMAIN assessment[1].rejection_reasons :
                  assessment[1].rejection_reasons[i] \in
                      {"Trading paused: Consecutive loss limit reached",
                       "Consecutive loss limit reached"}

\* The limits whose breach record_trade_result answers with a pause.
ConsecutiveLossBreach == stats.consecutive_losses >= max_consecutive_losses
DailyLossBreach == stats.daily_profit_loss <= 0 - max_daily_loss
DrawdownBreach ==
    /\ peak_balance > 0
    /\ DrawdownAtLeast(peak_balance, current_balance, 10 * max_drawdown_percent)

\* C11: when record_trade_result returns with a limit breached on the
\* updated statistics, trading is paused, and the pause runs for the
\* cooldown (consecutive losses or drawdown) or until the next daily
\* rollover after the time of the call (daily loss).
RecordPausesForBreachWindow ==
    [][(\E o \in Outcomes : RecordTradeResult(o)) =>
          ((ConsecutiveLossBreach' \/ DailyLossBreach' \/ DrawdownBreach') =>
              /\ trading_paused'
              /\ \/ /\ ConsecutiveLossBreach' \/ DrawdownBreach'
                    /\ pause_until' = now + cooldown_minutes * 60
                 \/ /\ DailyLossBreach'
                    /\ pause_until' = get_daily_reset_time(now))]_vars

\* The hard limits of the assessment, on the state it has read.
HardLimitBreached ==
    \/ current_balance < min_balance_to_trade
    \/ DailyLossBreach
    \/ ConsecutiveLossBreach
    \/ hourly_trade_count >= max_trades_per_hour
    \/ get_daily_trade_count(stats) >= max_trades_per_day
    \/ DrawdownBreach

\* C12: an assessment made while trading is not paused and a hard limit is
\* breached (balance floor, daily loss, consecutive losses, hourly or
\* daily trade count, drawdown) is REJECTED with stake 0, whatever its
\* risk score.
HardLimitsReject ==
    (assessment # <<>> /\ ~trading_paused /\ HardLimitBreached)
        => /\ assessment[1].decision = "REJECTED"
           /\ assessment[1].recommended_stake = 0

\* Fifteen results this hour and nothing else amiss: rejected on a score
\* that by itself would only have reduced the stake.
HourlyLimitAloneRejects ==
    /\ assessment # <<>>
    /\ ~trading_paused
    /\ assessment[1].rejection_reasons = <<"Hourly trade limit reached">>
    /\ assessment[1].risk_score < 500

\* An assessment on the score alone: trading not paused, no hard limit.
AssessedOnScore == assessment # <<>> /\ ~trading_paused /\ ~HardLimitBreached

\* requested stake * max(0.1, 1 - score / 100), capped at the per-trade
\* maximum, in thousandths of a cent; the requested stake is max_stake
ScaledStake(risk_score) ==
    Min(max_stake * Max(100, 1000 - risk_score), max_stake * 1000)

\* C13 as stated: on the score alone, a score of 75 or more is REJECTED
\* with stake 0 and the reason that the risk score is too high, and a score
\* from 25 up to 75 is REDUCED with exactly the scaled stake.
ScoreBandsExactStake ==
    AssessedOnScore =>
        LET a == assessment[1]
        IN  /\ a.risk_score >= 750 =>
                  /\ a.decision = "REJECTED"
                  /\ a.recommended_stake = 0
                  /\ a.rejection_reasons = <<"Risk score too high">>
            /\ (a.risk_score >= 250 /\ a.risk_score < 750) =>
                  /\ a.decision = "REDUCED"
                  /\ a.recommended_stake * 1000 = ScaledStake(a.risk_score)

\* C13: on the score alone, a score of 75 or more is REJECTED with stake 0
\* and the reason that the risk score is too high, and a score from 25 up
\* to 75 is REDUCED, never APPROVED, with the scaled stake rounded to a
\* whole cent, so within half a cent of it.
ScoreBandsRoundedStake ==
    AssessedOnScore =>
        LET a == assessment[1]
        IN  /\ a.risk_score >= 750 =>
                  /\ a.decision = "REJECTED"
                  /\ a.recommended_stake = 0
                  /\ a.rejection_reasons = <<"Risk score too high">>
            /\ (a.risk_score >= 250 /\ a.risk_score < 750) =>
                  /\ a.decision = "REDUCED"
                  /\ 2 * Abs(a.recommended_stake * 1000 - ScaledStake(a.risk_score))
                         <= 1000

\* A stake was reduced on a score whose scaled stake is not a whole number
\* of cents.
ReducedToRoundedStake ==
    /\ AssessedOnScore
    /\ assessment[1].decision = "REDUCED"
    /\ ScaledStake(assessment[1].risk_score) % 1000 > 500

\* C14: on the score alone, an assessment with a score below 25 is
\* APPROVED and recommends the full requested stake, max_stake, not a stake
\* scaled down by the score.
LowScoreApprovedAtFullStake ==
    (AssessedOnScore /\ assessment[1].risk_score < 250)
        => /\ assessment[1].decision = "APPROVED"
           /\ assessment[1].recommended_stake = max_stake

\* C15: the risk score of every assessment lies between 0 and 100.
RiskScoreWithinRange ==
    assessment # <<>> =>
        (assessment[1].risk_score >= 0 /\ assessment[1].risk_score <= 1000)

\* C16: assess_trade_risk changes nothing that a later assessment reads:
\* not the statistics, not the balance tracking, not the pause state.
AssessChangesNothing ==
    [][(\E signal \in Signals, bal \in Balances : AssessTradeRisk(signal, bal))
          => UNCHANGED <<stats, peak_balance, hourly_trade_count,
                         trading_paused, pause_reason, pause_until>>]_vars

\* The pause window is absent: no reason and no end are kept.
NoPauseWindow == pause_reason = "" /\ pause_until = 0

\* C30: whenever trading is not paused there is no pause window; an
\* assessment that finds the pause run out lifts it and force_resume_trading
\* lifts it at any time, both clearing the window; force_resume_trading
\* while trading is not paused changes nothing in the risk manager.
PauseWindowOnlyWhilePaused ==
    /\ (~trading_paused => NoPauseWindow)
    /\ [][/\ ~trading_paused' => NoPauseWindow'
          /\ (/\ trading_paused
              /\ now >= pause_until
              /\ \E signal \in Signals, bal \in Balances : AssessTradeRisk(signal, bal))
                => (~trading_paused' /\ NoPauseWindow')
          /\ ForceResumeTrading
                => /\ ~trading_paused' /\ NoPauseWindow'
                   /\ ~trading_paused =>
                         UNCHANGED <<stats, current_balance, peak_balance,
                                     daily_reset_time, hourly_trade_count,
                                     hourly_reset_time, trading_paused,
                                     pause_reason, pause_until>>]_vars

\* Trading runs again although the latest results on record are a run of
\* losses that paused it: the pause was lifted and its window cleared.
PauseLiftedAfterBreach ==
    /\ ~trading_paused
    /\ NoPauseWindow
    /\ stats.consecutive_losses >= max_consecutive_losses

\* C31: an assessment made when a window is due to roll over sets
\* daily_profit_loss to 0 when the daily window is due and hourly_trade_count
\* to 0 when the hourly window is due, and changes no other statistic
\* (total, winning and losing trades, both streaks, the all-time profit and
\* loss); the pause state changes only when the pause itself has run out.
RolloverResetsOnlyItsWindow ==
    [][(/\ now >= daily_reset_time \/ now >= hourly_reset_time
        /\ \E signal \in RolloverSignals, bal \in RolloverBalances :
              AssessTradeRisk(signal, bal))
       => /\ stats' = [stats EXCEPT !.daily_profit_loss =
                           IF now >= daily_reset_time THEN 0 ELSE @]
          /\ hourly_trade_count' =
                 IF now >= hourly_reset_time THEN 0 ELSE hourly_trade_count
          /\ daily_reset_time' > now /\ hourly_reset_time' > now
          /\ (trading_paused => now < pause_until)
                 => UNCHANGED <<trading_paused, pause_reason, pause_until>>]_vars

\* Both windows rolled over after midnight with a loss streak on record,
\* and the hourly window rolled over alone an hour later with a loss of the
\* new day on record.
HourlyRolloverAfterDaily ==
    /\ assessment # <<>>
    /\ daily_reset_time = 2 * Day
    /\ hourly_reset_time = Day + 2 * Hour
    /\ hourly_trade_count = 0
    /\ stats.daily_profit_loss < 0
    /\ stats.total_profit_loss < stats.daily_profit_loss
    /\ stats.consecutive_losses > max_consecutive_losses

\* C32: the daily trade limit counts the trades of the current daily
\* window: when the last result on record was recorded before the window
\* began (the count of the day is 0), no assessment is rejected for the
\* daily trade limit.
DailyTradeLimitCountsToday ==
    (assessment # <<>> /\ stats.last_trade_time < daily_reset_time - Day)
        => \A i \in DOMAIN assessment[1].rejection_reasons :
               assessment[1].rejection_reasons[i] # "Daily trade limit reached"

\* C33: a restart gives back the state as the last operation left it: the
\* trades that were active are active again, and the statistics and the
\* pause state of the risk manager are the ones it had.
StateSurvivesRestart ==
    [][(\E balance \in OrderBalances : Restart(balance))
       => /\ active_trades' = active_trades
          /\ \A t \in active_trades : t \in DOMAIN trades' /\ trades'[t] = trades[t]
          /\ stats' = stats
          /\ trading_paused' = trading_paused
          /\ pause_reason' = pause_reason
          /\ pause_until' = pause_until]_vars

ApprovedStakeIsPositive ==
    assessment # <<>>
        => IF assessment[1].decision = "REJECTED"
           THEN assessment[1].recommended_stake = 0
           ELSE /\ assessment[1].recommended_stake > 0
                /\ assessment[1].recommended_stake <= trading_config.max_stake

\* C38: an assessment that finds a consecutive-loss pause run out lifts it
\* and, for a signal with confidence of 70 or more and with the balance,
\* the daily loss, the drawdown and the trade counts within their limits,
\* is APPROVED or REDUCED.
CooldownEndsLockout ==
    [][(/\ trading_paused
        /\ now >= pause_until
        /\ pause_reason = "Consecutive loss limit reached")
       => \A signal \in Signals, bal \in Balances :
             (/\ AssessTradeRisk(signal, bal)
              /\ signal.confidence >= 70
              /\ current_balance' >= min_balance_to_trade
              /\ ~DailyLossBreach'
              /\ ~DrawdownBreach'
              /\ hourly_trade_count' < max_trades_per_hour
              /\ get_daily_trade_count(stats') < max_trades_per_day)
             => /\ ~trading_paused'
                /\ assessment'[1].decision \in {"APPROVED", "REDUCED"}]_vars

(***************************************************************************)
(* Properties of the trade executor.                                       *)
(***************************************************************************)
Settled(t) == trades[t].status \in {"WON", "LOST"}

\* C17: when the risk manager rejects the trade, execute_trade returns the
\* rejection without any use of the client and without a Trade: no request
\* is begun or sent, and the trades, the active and completed trades and
\* the contract subscriptions stay as they are.
RejectionTouchesNothing ==
    [][((\E signal \in OrderSignals, bal \in OrderBalances : ExecuteTrade(signal, bal))
        /\ assessment'[1].decision = "REJECTED")
          => /\ exec'.pc = "idle"
             /\ exec'.result = "REJECTED"
             /\ exec'.trade = 0
             /\ UNCHANGED <<clientVars, taskVars, netVars, trades, trade_counter,
                            active_trades, completed_trades,
                            contract_subscriptions>>]_vars

\* A trade was rejected while an earlier one was active.
RejectedWhileTradeActive ==
    /\ assessment # <<>>
    /\ assessment[1].decision = "REJECTED"
    /\ exec.pc = "idle"
    /\ exec.result = "REJECTED"
    /\ active_trades # {}

\* buy_contract has returned the `buy` object of a response without error.
PlacementSucceeded ==
    /\ PlaceOrderReturns
    /\ req["app"].ret = "response"
    /\ ~req["app"].err

\* buy_contract has returned None: the request failed, timed out, or was
\* answered with an error.
PlacementFailed ==
    /\ PlaceOrderReturns
    /\ ~(req["app"].ret = "response" /\ ~req["app"].err)

\* C19: when the placement fails the trade becomes ERROR and is moved
\* straight to the completed trades: it is not among the active trades, no
\* contract id is registered for it, and record_trade_result is not called.
FailedPlacementIsCompleted ==
    [][PlacementFailed =>
          LET t == exec.trade
          IN  /\ trades'[t].status = "ERROR"
              /\ \E i \in DOMAIN completed_trades' : completed_trades'[i] = t
              /\ t \notin active_trades'
              /\ \A c \in DOMAIN contract_subscriptions' :
                     contract_subscriptions'[c] # t
              /\ recorded'[t] = 0
              /\ UNCHANGED stats]_vars

\* C18 as stated: a trade that is not rejected is created PENDING with
\* exactly the recommended stake of the assessment; when its placement
\* succeeds it keeps that stake, becomes ACTIVE, takes the contract id of
\* the venue, is registered under it in contract_subscriptions, the report
\* is SUCCESS, and the trade is among the active trades and not among the
\* completed.
AcceptedPlacementActivatesTrade ==
    [][/\ ((\E signal \in OrderSignals, bal \in OrderBalances :
                ExecuteTrade(signal, bal)) /\ exec'.pc = "placing")
            => /\ trades'[exec'.trade].status = "PENDING"
               /\ trades'[exec'.trade].stake = assessment'[1].recommended_stake
       /\ PlacementSucceeded
            => LET t == exec.trade
               IN  /\ trades[t].status = "PENDING"
                   /\ trades'[t].status = "ACTIVE"
                   /\ trades'[t].stake = trades[t].stake
                   /\ trades'[t].contract_id # 0
                   /\ trades'[t].contract_id = req["app"].cid
                   /\ trades'[t].contract_id \in DOMAIN contract_subscriptions'
                   /\ contract_subscriptions'[trades'[t].contract_id] = t
                   /\ exec'.result = "SUCCESS"
                   /\ t \in active_trades'
                   /\ \A i \in DOMAIN completed_trades' :
                          completed_trades'[i] # t]_vars

\* C18: a trade that is not rejected is created PENDING with exactly the
\* recommended stake of the assessment; when its placement succeeds it
\* keeps that stake, becomes ACTIVE, the report is SUCCESS, and the trade is
\* among the active trades and not among the completed; it takes the
\* contract id of the response and is registered under it in
\* contract_subscriptions when the response carries one, and is
\* registered nowhere when it carries none.
PlacementActivatesAndRegistersById ==
    [][/\ ((\E signal \in OrderSignals, bal \in OrderBalances :
                ExecuteTrade(signal, bal)) /\ exec'.pc = "placing")
            => /\ trades'[exec'.trade].status = "PENDING"
               /\ trades'[exec'.trade].stake = assessment'[1].recommended_stake
       /\ PlacementSucceeded
            => LET t == exec.trade
                   contract_id == req["app"].cid
               IN  /\ trades[t].status = "PENDING"
                   /\ trades'[t].status = "ACTIVE"
                   /\ trades'[t].stake = trades[t].stake
                   /\ trades'[t].contract_id = contract_id
                   /\ contract_id # 0 =>
                          /\ contract_id \in DOMAIN contract_subscriptions'
                          /\ contract_subscriptions'[contract_id] = t
                   /\ contract_id = 0 => UNCHANGED contract_subscriptions
                   /\ exec'.result = "SUCCESS"
                   /\ t \in active_trades'
                   /\ \A i \in DOMAIN completed_trades' :
                          completed_trades'[i] # t]_vars

\* execute_trade has just returned SUCCESS for a trade that is active under
\* the contract id the venue gave it.
PlacedUnderContractId ==
    /\ exec.pc = "idle"
    /\ exec.result = "SUCCESS"
    /\ exec.trade \in active_trades
    /\ trades[exec.trade].status = "ACTIVE"
    /\ trades[exec.trade].contract_id # 0
    /\ trades[exec.trade].contract_id \in DOMAIN contract_subscriptions
    /\ contract_subscriptions[trades[exec.trade].contract_id] = exec.trade

\* C2: record_trade_result is called exactly once for every trade that is
\* WON or LOST and at most once for any trade, so the risk manager has
\* counted exactly the settled trades.
RecordedOncePerSettledOrder ==
    /\ \A t \in 1..trade_counter :
          /\ recorded[t] <= 1
          /\ Settled(t) => recorded[t] = 1
    /\ stats.total_trades = Cardinality({t \in 1..trade_counter : Settled(t)})

\* A trade settled and was recorded once, and a sweep has run since, at a
\* time when the trade was past its expiry.
SettledThenSwept ==
    \E t \in 1..trade_counter :
        /\ Settled(t) /\ recorded[t] = 1
        /\ current_time # <<>>
        /\ current_time[1] >= trades[t].exit_time[1]
        /\ Overdue(trades[t], current_time[1])

\* C3: an expiry sweep leaves no overdue trade active: each one is marked
\* ERROR and moved to the completed trades, with or without a venue
\* contract id.
SweepEndsEveryOverdueOrder ==
    [][CheckExpiredTrades =>
          \A t \in active_trades :
              Overdue(trades[t], now) =>
                  /\ trades'[t].status = "ERROR"
                  /\ t \notin active_trades'
                  /\ \E i \in DOMAIN completed_trades' : completed_trades'[i] = t]_vars

\* C4: when the pump reads a proposal_open_contract frame that reports the
\* sale of the contract of an active trade, the trade is settled WON or LOST
\* and recorded.
SettledPushReachesOrder ==
    [][(/\ HandleMessage(FALSE)
        /\ Head(inbound).msg_type = "proposal_open_contract"
        /\ Head(inbound).proposal_open_contract.is_sold
        /\ Head(inbound).proposal_open_contract.sell_spot # <<>>
        /\ RoutedTrade(Head(inbound).contract_id) # 0)
          => LET t == RoutedTrade(Head(inbound).contract_id)
             IN  /\ trades'[t].status \in {"WON", "LOST"}
                 /\ recorded'[t] = 1]_vars

RoutingMapOnlyActive ==
    \A c \in DOMAIN contract_subscriptions :
        /\ contract_subscriptions[c] \in active_trades
        /\ trades[contract_subscriptions[c]].status = "ACTIVE"

\* The statuses from which a trade goes nowhere.
Terminal(status) == status \in {"WON", "LOST", "CANCELLED", "ERROR"}

\* The place of a status along PENDING -> ACTIVE -> terminal.
Rank(status) ==
    CASE status = "PENDING" -> 0
      [] status = "ACTIVE"  -> 1
      [] OTHER              -> 2

\* C22: no step moves the status of a trade backwards along
\* PENDING -> ACTIVE -> {WON, LOST, CANCELLED, ERROR}, and no step changes
\* any field of a trade whose status is terminal.
StatusMonotonicAndTerminalFrozen ==
    [][\A t \in 1..trade_counter :
          /\ Rank(trades'[t].status) >= Rank(trades[t].status)
          /\ Terminal(trades[t].status) => trades'[t] = trades[t]]_vars

\* A trade was cancelled by shutdown, and a sweep has run at a later time.
CancelledThenSwept ==
    \E t \in 1..trade_counter :
        /\ trades[t].status = "CANCELLED"
        /\ current_time # <<>>
        /\ current_time[1] > trades[t].exit_time[1]

\* C23: shutdown marks every trade that is still active CANCELLED and moves
\* it to the completed trades without a record_trade_result call, and when
\* TradeExecutor.shutdown returns active_trades and contract_subscriptions
\* are empty.
ShutdownCancelsAndEmpties ==
    [][BotShutdown =>
          /\ \A t \in active_trades :
                /\ trades'[t].status = "CANCELLED"
                /\ \E i \in DOMAIN completed_trades' : completed_trades'[i] = t
                /\ recorded'[t] = recorded[t]
          /\ active_trades' = {}
          /\ contract_subscriptions' = NoSubscriptions
          /\ UNCHANGED stats]_vars

\* The trades the venue accepted (they became ACTIVE) that were entered in
\* the hourly window of the present time.
PlacedThisHour ==
    {t \in DOMAIN trades :
        /\ t \in active_trades \/ \E i \in DOMAIN completed_trades : completed_trades[i] = t
        /\ get_hourly_reset_time(trades[t].entry_time) = get_hourly_reset_time(now)}

\* C37: within one hourly window no more than max_trades_per_hour orders
\* are placed with the venue, whether they are still open or not.
OrdersPerHourWithinLimit ==
    Cardinality(PlacedThisHour) <= risk_config.max_trades_per_hour

\* C40: no order is both active and completed, every active order has
\* status ACTIVE, every completed order has a terminal status, and no order
\* is in the completed trades twice.
ActiveAndCompletedDisjoint ==
    /\ \A i \in DOMAIN completed_trades : completed_trades[i] \notin active_trades
    /\ \A t \in active_trades : trades[t].status = "ACTIVE"
    /\ \A i \in DOMAIN completed_trades : Terminal(trades[completed_trades[i]].status)
    /\ \A i, j \in DOMAIN completed_trades :
           completed_trades[i] = completed_trades[j] => i = j

\* The one order placed was active, a push left it a last price, the sweep
\* moved it to the completed trades as ERROR, and no subscription was
\* removed for it.
SweptOrderStaysCompleted ==
    /\ completed_trades = <<1>>
    /\ active_trades = {}
    /\ exec.result = "SUCCESS"
    /\ trades[1].status = "ERROR"
    /\ trades[1].exit_price # <<>>
    /\ trades[1].contract_id \in DOMAIN contract_subscriptions

====
